---- MODULE Spec2Model ----
(***************************************************************************)
(* Model of src/bot.py: a Telegram bot that turns a voice message into a   *)
(* Notion task or a Google Calendar event.                                 *)
(*                                                                         *)
(* user_modes is read only through user_modes.get(user_id), so a missing    *)
(* key and the value None are one state: user_modes is a function on Users *)
(* with None for both.                                                     *)
(*                                                                         *)
(* State: the three module-level containers of bot.py (user_modes,         *)
(* pending_meetings, processed_messages), the temporary audio files in the *)
(* working directory, and `out`, the observable effects of the last        *)
(* handler run (replies sent, external calls made).                        *)
(*                                                                         *)
(* main() builds the Application without concurrent_updates, so the        *)
(* dispatcher awaits each handler to its end before it takes the next      *)
(* update: every handler is one action.  ConcurrentSpec drops that         *)
(* guarantee: there a handler may be suspended at an await while others    *)
(* run, and `tasks` holds the suspended handlers with their local          *)
(* variables.  Under Spec tasks stays empty.                               *)
(*                                                                         *)
(* Times are minutes of Moscow local time counted from the midnight of     *)
(* day 0.  Cyrillic text is written in a one-letter-per-letter Latin       *)
(* transliteration, as TLA+ strings are ASCII.                             *)
(***************************************************************************)
EXTENDS Integers, Sequences, FiniteSets, TLC

VARIABLES user_modes, pending_meetings, processed_messages, files, tasks, out

vars == <<user_modes, pending_meetings, processed_messages, files, tasks, out>>

(***************************************************************************)
(* Bounds and program constants                                            *)
(***************************************************************************)
\* Telegram user ids and message ids of the modelled traffic.
Users == {1, 11}
MsgIds == {11}

\* len(processed_messages) > 100 clears the set.
DedupLimit == 100

\* How many temporary files may be left behind before the model stops
\* accepting voice messages that reach the download.
MaxLeaked == 1

MODE_TASK == "task"
MODE_MEETING == "meeting"
None == "None"

(***************************************************************************)
(* Python dict helpers: a dict is a function whose DOMAIN is its key set.  *)
(***************************************************************************)
EmptyDict == [k \in {} |-> None]
DictGet(d, k) == IF k \in DOMAIN d THEN d[k] ELSE None
DictSet(d, k, v) == [x \in (DOMAIN d) \cup {k} |-> IF x = k THEN v ELSE d[x]]
DictDel(d, k) == [x \in (DOMAIN d) \ {k} |-> d[x]]

(***************************************************************************)
(* str(int) and the f-string of the dedup key                              *)
(***************************************************************************)
DigitChars == <<"0", "1", "2", "3", "4", "5", "6", "7", "8", "9">>

RECURSIVE IntToStr(_)
IntToStr(n) ==
    IF n < 10 THEN DigitChars[n + 1]
    ELSE IntToStr(n \div 10) \o DigitChars[(n % 10) + 1]

\* message_key = f"{user_id}_{message_id}"
message_key(user_id, message_id) ==
    IntToStr(user_id) \o "_" \o IntToStr(message_id)

(***************************************************************************)
(* Text.  A Python str is a sequence of one-character strings.             *)
(* Transliteration used in the literals below (lower case; the capital     *)
(* letter is the Latin capital):                                           *)
(*   a b v g d e x(yo) z i k l m n o p r s t u c(che) q(ya) j(soft sign)   *)
(***************************************************************************)
UpperChars == <<"A","B","V","G","D","E","X","Z","I","K","L","M","N","O","P","R","S","T","U","C","Q","J">>
LowerChars == <<"a","b","v","g","d","e","x","z","i","k","l","m","n","o","p","r","s","t","u","c","q","j">>

\* str.lower() on one character
LowerChar(c) ==
    IF \E i \in DOMAIN UpperChars : UpperChars[i] = c
    THEN LowerChars[CHOOSE i \in DOMAIN UpperChars : UpperChars[i] = c]
    ELSE c

\* str.lower()
Lower(text) == [i \in DOMAIN text |-> LowerChar(text[i])]

IsDigit(c) == \E i \in DOMAIN DigitChars : DigitChars[i] = c
DigitVal(c) == (CHOOSE i \in DOMAIN DigitChars : DigitChars[i] = c) - 1
IsSep(c) == c \in {":", "."}
IsSpace(c) == c = " "

\* `needle` matches `text` at position i (1-based), letter case ignored or not
MatchesAt(text, i, needle, ignorecase) ==
    /\ i + Len(needle) - 1 <= Len(text)
    /\ \A j \in 1..Len(needle) :
          IF ignorecase THEN LowerChar(text[i + j - 1]) = LowerChar(needle[j])
          ELSE text[i + j - 1] = needle[j]

\* needle in text
Contains(text, needle) == \E i \in 1..Len(text) : MatchesAt(text, i, needle, FALSE)

\* The match of (\d{1,2})[:\.](\d{2}) that starts at position i, as
\* <<hour, minute>>, or <<>> when there is none.  The greedy two-digit hour is
\* tried first.
TimeMatchAt(text, i) ==
    IF /\ i + 4 <= Len(text)
       /\ IsDigit(text[i]) /\ IsDigit(text[i + 1]) /\ IsSep(text[i + 2])
       /\ IsDigit(text[i + 3]) /\ IsDigit(text[i + 4])
    THEN <<10 * DigitVal(text[i]) + DigitVal(text[i + 1]),
           10 * DigitVal(text[i + 3]) + DigitVal(text[i + 4])>>
    ELSE IF /\ i + 3 <= Len(text)
            /\ IsDigit(text[i]) /\ IsSep(text[i + 1])
            /\ IsDigit(text[i + 2]) /\ IsDigit(text[i + 3])
    THEN <<DigitVal(text[i]), 10 * DigitVal(text[i + 2]) + DigitVal(text[i + 3])>>
    ELSE <<>>

\* re.search(r'(\d{1,2})[:\.](\d{2})', text): the leftmost match
TimeSearch(text) ==
    LET hits == {i \in 1..Len(text) : TimeMatchAt(text, i) # <<>>}
    IN  IF hits = {} THEN <<>>
        ELSE TimeMatchAt(text, CHOOSE i \in hits : \A j \in hits : i <= j)

\* Length of the match of \d{1,2}[:\.]?\d{0,2} at position i (0: no match).
\* Every part after the first digit is optional, so the greedy match never
\* backtracks.
NumberTokenLen(text, i) ==
    IF i > Len(text) \/ ~IsDigit(text[i]) THEN 0
    ELSE LET a == IF i + 1 <= Len(text) /\ IsDigit(text[i + 1]) THEN 2 ELSE 1
             b == IF i + a <= Len(text) /\ IsSep(text[i + a]) THEN a + 1 ELSE a
             c == IF i + b <= Len(text) /\ IsDigit(text[i + b])
                  THEN IF i + b + 1 <= Len(text) /\ IsDigit(text[i + b + 1])
                       THEN b + 2 ELSE b + 1
                  ELSE b
         IN  c

\* re.sub(r'\d{1,2}[:\.]?\d{0,2}', '', text), scanning from position i
RECURSIVE StripNumbers(_, _)
StripNumbers(text, i) ==
    IF i > Len(text) THEN <<>>
    ELSE LET n == NumberTokenLen(text, i)
         IN  IF n > 0 THEN StripNumbers(text, i + n)
             ELSE <<text[i]>> \o StripNumbers(text, i + 1)

\* The alternation (zavtra|poslezavtra|segodnq|v|na|utrom|vecerom|dnxm), in
\* the order the regex tries its branches.
StopWords == <<
    <<"z","a","v","t","r","a">>,
    <<"p","o","s","l","e","z","a","v","t","r","a">>,
    <<"s","e","g","o","d","n","q">>,
    <<"v">>,
    <<"n","a">>,
    <<"u","t","r","o","m">>,
    <<"v","e","c","e","r","o","m">>,
    <<"d","n","x","m">> >>

\* Length of the first branch of the alternation that matches at i (0: none)
StopWordLen(text, i) ==
    LET hits == {k \in DOMAIN StopWords : MatchesAt(text, i, StopWords[k], TRUE)}
    IN  IF hits = {} THEN 0
        ELSE Len(StopWords[CHOOSE k \in hits : \A j \in hits : k <= j])

\* re.sub(r'(...)', '', title, flags=re.IGNORECASE), scanning from position i
RECURSIVE StripStopWords(_, _)
StripStopWords(text, i) ==
    IF i > Len(text) THEN <<>>
    ELSE LET n == StopWordLen(text, i)
         IN  IF n > 0 THEN StripStopWords(text, i + n)
             ELSE <<text[i]>> \o StripStopWords(text, i + 1)

\* ' '.join(title.split()).strip(): runs of blanks become one blank, leading
\* and trailing blanks go.
RECURSIVE CollapseSpaces(_, _, _)
CollapseSpaces(text, i, acc) ==
    IF i > Len(text) THEN acc
    ELSE IF IsSpace(text[i]) THEN CollapseSpaces(text, i + 1, acc)
    ELSE IF i > 1 /\ IsSpace(text[i - 1]) /\ acc # <<>>
         THEN CollapseSpaces(text, i + 1, acc \o <<" ", text[i]>>)
         ELSE CollapseSpaces(text, i + 1, acc \o <<text[i]>>)

\* "Vstreca", the default title
DefaultTitle == <<"V","s","t","r","e","c","a">>

MinutesPerHour == 60
MinutesPerDay == 1440
DefaultHour == 10
DefaultMinute == 0

DayOf(t) == t \div MinutesPerDay

\* datetime.replace(hour=, minute=, second=0, microsecond=0) raises ValueError
\* outside these ranges.
ValidTime(hour, minute) == hour \in 0..23 /\ minute \in 0..59

\* A regex parser without the relative-day keywords
parse_meeting_time_simple_without_offset(text, now) ==
    LET time_match == TimeSearch(text)
        hour == IF time_match # <<>> THEN time_match[1] ELSE DefaultHour
        minute == IF time_match # <<>> THEN time_match[2] ELSE DefaultMinute
        start_time == DayOf(now) * MinutesPerDay + hour * MinutesPerHour + minute
        stripped == CollapseSpaces(StripStopWords(StripNumbers(text, 1), 1), 1, <<>>)
        title == IF stripped = <<>> THEN DefaultTitle ELSE stripped
    IN  IF ValidTime(hour, minute)
        THEN [ok |-> TRUE, title |-> title, start_time |-> start_time,
              end_time |-> start_time + MinutesPerHour]
        ELSE [ok |-> FALSE]

\* parse_meeting_time_simple(text) at datetime.now() = now.
\* [ok |-> FALSE] stands for the ValueError of datetime.replace.
parse_meeting_time_simple(text, now) ==
    LET time_match == TimeSearch(text)
        hour == IF time_match # <<>> THEN time_match[1] ELSE DefaultHour
        minute == IF time_match # <<>> THEN time_match[2] ELSE DefaultMinute
        text_lower == Lower(text)
        days_offset ==
            IF Contains(text_lower, <<"z","a","v","t","r","a">>) THEN 1
            ELSE IF Contains(text_lower, <<"p","o","s","l","e","z","a","v","t","r","a">>) THEN 2
            ELSE 0
        start_time == (DayOf(now) + days_offset) * MinutesPerDay
                        + hour * MinutesPerHour + minute
        stripped == CollapseSpaces(StripStopWords(StripNumbers(text, 1), 1), 1, <<>>)
        title == IF stripped = <<>> THEN DefaultTitle ELSE stripped
    IN  IF ValidTime(hour, minute)
        THEN [ok |-> TRUE, title |-> title, start_time |-> start_time,
              end_time |-> start_time + MinutesPerHour]
        ELSE [ok |-> FALSE]

(***************************************************************************)
(* External collaborators.  What they answer is an input of the handler    *)
(* that calls them, drawn from the small sets below.                       *)
(***************************************************************************)
\* datetime.now() when a voice message is handled: day 0, 12:00
Nows == {720}

\* Whisper transcripts: "vstreca v 15:00", "sozvon zavtra", "v 25:00"
Utterances == {
    <<"v","s","t","r","e","c","a"," ","v"," ","1","5",":","0","0">>,
    <<"s","o","z","v","o","n"," ","z","a","v","t","r","a">>,
    <<"v"," ","2","5",":","0","0">> }

\* Answers of the chat-completions call: the call raises, the content is no
\* JSON, or it is a JSON object `data` (any of its keys may be missing).
\* date is a day number, time is <<hour, minute>>.
TitleAnton == <<"V","s","t","r","e","c","a"," ","s"," ","A","n","t","o","n","o","m">>
AIReplies == {
    [kind |-> "service_error", data |-> EmptyDict],
    [kind |-> "bad_json", data |-> EmptyDict],
    [kind |-> "json",
     data |-> [k \in {"title", "date", "time", "duration"} |->
                 CASE k = "title" -> TitleAnton
                   [] k = "date" -> 0
                   [] k = "time" -> <<15, 30>>
                   [] OTHER -> 30]],
    [kind |-> "json", data |-> EmptyDict] }

\* The Google Calendar account as one request sees it: the ids calendarList
\* returns, the events it holds (in the order the API lists them; summary
\* <<>> is an event without a summary), and which requests fail.
NoSummary == <<>>
Obed == <<"O","b","e","d">>
Event(cal, summary, s, e) == [calendar |-> cal, summary |-> summary, start |-> s, end |-> e]
CalendarWorld(evs, list_ok, freebusy_ok, events_fail, insert_ok) ==
    [calendar_ids |-> <<"primary", "work">>, events |-> evs, list_ok |-> list_ok,
     freebusy_ok |-> freebusy_ok, events_fail |-> events_fail, insert_ok |-> insert_ok]

\* day 0 15:30-16:30 lunch in the work calendar; day 0 09:00-09:30 untitled
LunchEvents == << Event("work", Obed, 930, 990) >>
Worlds ==
    { CalendarWorld(<<>>, TRUE, TRUE, {}, ok) : ok \in BOOLEAN } \cup
    { CalendarWorld(LunchEvents, TRUE, TRUE, ef, ok) :
          ef \in {{}, {"work"}}, ok \in BOOLEAN } \cup
    { CalendarWorld(LunchEvents, FALSE, TRUE, {}, ok) : ok \in BOOLEAN } \cup
    { CalendarWorld(LunchEvents, TRUE, FALSE, {}, ok) : ok \in BOOLEAN }

\* [s1, e1) and [s2, e2) share an instant
Overlaps(s1, e1, s2, e2) == s1 < e2 /\ s2 < e1

Max(a, b) == IF a >= b THEN a ELSE b
Min(a, b) == IF a <= b THEN a ELSE b

\* Concatenation of the sequences in the sequence xss
RECURSIVE Concat(_)
Concat(xss) == IF xss = <<>> THEN <<>> ELSE Head(xss) \o Concat(Tail(xss))

\* The calendar really holds an event overlapping [start_time, end_time)
CalendarBusy(world, start_time, end_time) ==
    \E i \in DOMAIN world.events :
        Overlaps(world.events[i].start, world.events[i].end, start_time, end_time)

\* freebusy().query: per calendar the busy slots inside the window
FreeBusySlots(world, cal_id, start_time, end_time) ==
    LET hit(ev) == IF ev.calendar = cal_id
                      /\ Overlaps(ev.start, ev.end, start_time, end_time)
                   THEN << [has_summary |-> FALSE, summary |-> NoSummary,
                            start |-> Max(ev.start, start_time),
                            calendar |-> cal_id] >>
                   ELSE <<>>
    IN  Concat([i \in DOMAIN world.events |-> hit(world.events[i])])

\* "Zanqto", the label of an event without a summary
Zanqto == <<"Z","a","n","q","t","o">>

\* events().list(calendarId, timeMin, timeMax): the entries appended for it
EventDetails(world, cal_id, start_time, end_time) ==
    LET hit(ev) == IF ev.calendar = cal_id
                      /\ Overlaps(ev.start, ev.end, start_time, end_time)
                   THEN << [has_summary |-> TRUE,
                            summary |-> IF ev.summary = NoSummary THEN Zanqto
                                        ELSE ev.summary,
                            start |-> ev.start, calendar |-> cal_id] >>
                   ELSE <<>>
    IN  IF cal_id \in world.events_fail THEN <<>>
        ELSE Concat([i \in DOMAIN world.events |-> hit(world.events[i])])

\* The de-duplication loop: entries with a summary, the first of each
\* (summary, start) pair
RECURSIVE UniqueEvents(_, _)
UniqueEvents(busy_events, seen) ==
    IF busy_events = <<>> THEN <<>>
    ELSE LET ev == Head(busy_events)
             key == <<ev.summary, ev.start>>
         IN  IF ev.has_summary /\ key \notin seen
             THEN <<ev>> \o UniqueEvents(Tail(busy_events), seen \cup {key})
             ELSE UniqueEvents(Tail(busy_events), seen)

\* check_calendar_busy(service, start_time, end_time) against `world`
\* (the API rejects an empty time range, timeMin >= timeMax, like any other
\* failed request: the except branch returns [])
check_calendar_busy(world, start_time, end_time) ==
    IF ~world.list_ok \/ ~world.freebusy_ok \/ start_time >= end_time THEN <<>>
    ELSE LET slots(cal_id) == FreeBusySlots(world, cal_id, start_time, end_time)
             details(cal_id) == EventDetails(world, cal_id, start_time, end_time)
             busy_slots == Concat([i \in DOMAIN world.calendar_ids |->
                                      slots(world.calendar_ids[i])])
             busy_events == IF busy_slots # <<>>
                            THEN busy_slots \o
                                 Concat([i \in DOMAIN world.calendar_ids |->
                                            details(world.calendar_ids[i])])
                            ELSE busy_slots
             unique_events == UniqueEvents(busy_events, {})
         IN  IF unique_events # <<>> THEN unique_events ELSE busy_events

(***************************************************************************)
(* Calendar calls                                                          *)
(***************************************************************************)
\* The client object get_google_calendar_service() builds, named after the
\* user whose message it was built for.
Service(user_id) == [built_for |-> user_id]
NoService == [built_for |-> 0]

\* One external call, as recorded in out.calls
Call(api, service, title, start_time, end_time) ==
    [api |-> api, service |-> service, title |-> title,
     start_time |-> start_time, end_time |-> end_time]
SimpleCall(api) == Call(api, NoService, <<>>, 0, 0)

\* create_event_in_calendar(service, title, start_time, end_time): one
\* events().insert, which succeeds or raises
create_event_in_calendar(service, title, start_time, end_time, insert_ok) ==
    [success |-> insert_ok,
     calls |-> << Call("events.insert", service, title, start_time, end_time) >>]

DefaultDuration == 60

\* parse_meeting_with_ai(text) at datetime.now() = now, the model answering
\* `ai`: any exception in the try block (the call, json.loads, strptime on a
\* time out of range) falls back to the regex parser
parse_meeting_with_ai(text, now, ai) ==
    IF /\ ai.kind = "json"
       /\ "time" \in DOMAIN ai.data
             => ValidTime(ai.data["time"][1], ai.data["time"][2])
    THEN LET data == ai.data
             title == IF "title" \in DOMAIN data THEN data["title"] ELSE DefaultTitle
             date == IF "date" \in DOMAIN data THEN data["date"] ELSE DayOf(now)
             time == IF "time" \in DOMAIN data THEN data["time"]
                     ELSE <<DefaultHour, DefaultMinute>>
             duration == IF "duration" \in DOMAIN data THEN data["duration"]
                         ELSE DefaultDuration
             start_time == date * MinutesPerDay + time[1] * MinutesPerHour + time[2]
         IN  [ok |-> TRUE, title |-> title, start_time |-> start_time,
              end_time |-> start_time + duration]
    ELSE parse_meeting_time_simple(text, now)

\* One line of the conflict list: f"* {ev_title} ({ev_start})"
ConflictLine(ev) == [title |-> ev.summary, start |-> ev.start]
ConflictLines(busy_events) == [i \in DOMAIN busy_events |-> ConflictLine(busy_events[i])]

NoEvent == [title |-> <<>>, start_time |-> 0, end_time |-> 0, service |-> NoService,
            conflicts |-> <<>>, formatted_time |-> 0]

\* Lines 525-530 of create_calendar_event: the result of the insert
created_event(created, calls, parsed) ==
    [status |-> IF created.success THEN "created" ELSE "error",
     store |-> FALSE, event_data |-> NoEvent,
     calls |-> calls \o created.calls, parsed |-> parsed]

\* A create_calendar_event that returns "conflict" without the assignment of
\* line 520
checked_event_without_store(parsed, busy_events, service, insert_ok, calls) ==
    IF busy_events # <<>>
    THEN [status |-> "conflict", store |-> FALSE,
          event_data |-> [title |-> parsed.title,
                          start_time |-> parsed.start_time,
                          end_time |-> parsed.end_time,
                          service |-> service,
                          conflicts |-> ConflictLines(busy_events),
                          formatted_time |-> parsed.start_time],
          calls |-> calls, parsed |-> parsed]
    ELSE created_event(create_event_in_calendar(service, parsed.title,
                           parsed.start_time, parsed.end_time, insert_ok),
                       calls, parsed)

\* Lines 496-530 of create_calendar_event, for the parsed triple and the
\* list check_calendar_busy returned
checked_event(parsed, busy_events, service, insert_ok, calls) ==
    IF busy_events # <<>>
    THEN [status |-> "conflict", store |-> TRUE,
          event_data |-> [title |-> parsed.title,
                          start_time |-> parsed.start_time,
                          end_time |-> parsed.end_time,
                          service |-> service,
                          conflicts |-> ConflictLines(busy_events),
                          formatted_time |-> parsed.start_time],
          calls |-> calls, parsed |-> parsed]
    ELSE created_event(create_event_in_calendar(service, parsed.title,
                           parsed.start_time, parsed.end_time, insert_ok),
                       calls, parsed)

\* Lines 491-530 of create_calendar_event, for the triple parse_meeting_with_ai
\* returned (parsed.ok = FALSE: it raised)
parsed_event(parsed, user_id, world) ==
    IF ~parsed.ok
    THEN [status |-> "raise", store |-> FALSE, event_data |-> NoEvent,
          calls |-> << SimpleCall("chat.completions") >>, parsed |-> parsed]
    ELSE checked_event(parsed,
                       check_calendar_busy(world, parsed.start_time, parsed.end_time),
                       Service(user_id), world.insert_ok,
                       << SimpleCall("chat.completions"),
                          SimpleCall("check_calendar_busy") >>)

\* create_calendar_event(text, user_id).  service_ok: whether
\* get_google_calendar_service() returned a client.  The result carries the
\* status ("raise": the exception of the regex parser leaves the function),
\* the calls made, the parsed triple and, when store is TRUE, the event_data
\* the function puts into pending_meetings[user_id].
create_calendar_event(text, user_id, service_ok, ai, now, world) ==
    IF ~service_ok
    THEN [status |-> "error", store |-> FALSE, event_data |-> NoEvent,
          calls |-> <<>>, parsed |-> [ok |-> FALSE]]
    ELSE parsed_event(parse_meeting_with_ai(text, now, ai), user_id, world)

(***************************************************************************)
(* out: what the last handler run did.  replies are the messages the       *)
(* handler sent or tried to send, calls the external calls it made, in     *)
(* order; temp_files are the temporary files it created; had_pending says  *)
(* whether the user had a pending meeting when the handler started.  For a *)
(* voice message, mode is the mode it was handled in, audio is what        *)
(* recognize_voice met ("": not called), outcome and event_data are what   *)
(* create_calendar_event returned, overlap and backend describe the        *)
(* calendar it met.  Where the chat is followed (ConcurrentSpec),          *)
(* on_screen are the conflict prompts this and the preceding voice         *)
(* messages left in the chat, and pressed is the prompt whose button       *)
(* started a callback (NoEvent: not followed).                             *)
(***************************************************************************)
Out(handler, user, detail, status, failed_at, replies, calls, temp_files) ==
    [handler |-> handler, user |-> user, detail |-> detail, status |-> status,
     failed_at |-> failed_at, replies |-> replies, calls |-> calls,
     temp_files |-> temp_files, had_pending |-> FALSE, mode |-> None,
     audio |-> "", outcome |-> "", event_data |-> NoEvent, overlap |-> FALSE,
     backend |-> "ok", on_screen |-> {}, pressed |-> NoEvent]

(***************************************************************************)
(* /start, the two mode buttons, the back button                           *)
(***************************************************************************)
\* start(update, context)
start(user_id) ==
    /\ user_modes' = [user_modes EXCEPT ![user_id] = MODE_TASK]
    /\ out' = Out("start", user_id, "", "ok", "", <<"welcome">>, <<>>, {})
    /\ UNCHANGED <<pending_meetings, processed_messages, files, tasks>>

\* The texts the filter of handle_mode_selection lets through
ModeButtons == {"Zadaca", "Vstreca"}

\* handle_mode_selection(update, context)
handle_mode_selection(user_id, text) ==
    /\ user_modes' = [user_modes EXCEPT ![user_id] =
                          IF text = "Zadaca" THEN MODE_TASK ELSE MODE_MEETING]
    /\ out' = Out("mode", user_id, text, "ok", "",
                  << IF text = "Zadaca" THEN "task_selected" ELSE "meeting_selected" >>,
                  <<>>, {})
    /\ UNCHANGED <<pending_meetings, processed_messages, files, tasks>>

\* A handle_back that empties user_modes instead of resetting one entry
handle_back_clearing_modes(user_id) ==
    /\ user_modes' = [u \in Users |-> None]
    /\ out' = Out("back", user_id, "", "ok", "", <<"menu">>, <<>>, {})
    /\ UNCHANGED <<pending_meetings, processed_messages, files, tasks>>

\* A handle_back that also forgets the user's pending meeting
handle_back_dropping_pending(user_id) ==
    /\ user_modes' = [user_modes EXCEPT ![user_id] = None]
    /\ pending_meetings' = IF user_id \in DOMAIN pending_meetings
                           THEN DictDel(pending_meetings, user_id)
                           ELSE pending_meetings
    /\ out' = Out("back", user_id, "", "ok", "", <<"menu">>, <<>>, {})
    /\ UNCHANGED <<processed_messages, files, tasks>>

\* handle_back(update, context)
handle_back(user_id) ==
    /\ user_modes' = [user_modes EXCEPT ![user_id] = None]
    /\ out' = Out("back", user_id, "", "ok", "", <<"menu">>, <<>>, {})
    /\ UNCHANGED <<pending_meetings, processed_messages, files, tasks>>

(***************************************************************************)
(* The confirm / cancel buttons                                            *)
(***************************************************************************)
CallbackActions == {"meeting_confirm", "meeting_cancel"}

\* A confirm branch that deletes the record only after a successful insert
meeting_callback_keeping_failed(pending, user_id, action, answer_ok, insert_ok) ==
    IF ~answer_ok
    THEN [pending |-> pending, status |-> "exception", failed_at |-> "answer",
          replies |-> <<>>, calls |-> <<>>]
    ELSE IF action = "meeting_confirm"
    THEN IF user_id \notin DOMAIN pending
         THEN [pending |-> pending, status |-> "not_found", failed_at |-> "",
               replies |-> <<"not_found">>, calls |-> <<>>]
         ELSE LET event_data == pending[user_id]
                  created == create_event_in_calendar(event_data.service,
                                 event_data.title, event_data.start_time,
                                 event_data.end_time, insert_ok)
              IN  [pending |-> IF created.success THEN DictDel(pending, user_id)
                               ELSE pending,
                   status |-> IF created.success THEN "created" ELSE "error",
                   failed_at |-> "",
                   replies |-> << IF created.success THEN "meeting_added"
                                  ELSE "meeting_error", "menu" >>,
                   calls |-> created.calls]
    ELSE [pending |-> IF user_id \in DOMAIN pending THEN DictDel(pending, user_id)
                      ELSE pending,
          status |-> "cancelled", failed_at |-> "",
          replies |-> <<"cancelled", "menu">>, calls |-> <<>>]

\* A handler whose two branches share the lookup and the not-found return
meeting_callback_shared_lookup(pending, user_id, action, answer_ok, insert_ok) ==
    IF ~answer_ok
    THEN [pending |-> pending, status |-> "exception", failed_at |-> "answer",
          replies |-> <<>>, calls |-> <<>>]
    ELSE IF user_id \notin DOMAIN pending
    THEN [pending |-> pending, status |-> "not_found", failed_at |-> "",
          replies |-> <<"not_found">>, calls |-> <<>>]
    ELSE IF action = "meeting_confirm"
    THEN LET event_data == pending[user_id]
             created == create_event_in_calendar(event_data.service,
                            event_data.title, event_data.start_time,
                            event_data.end_time, insert_ok)
         IN  [pending |-> DictDel(pending, user_id),
              status |-> IF created.success THEN "created" ELSE "error",
              failed_at |-> "",
              replies |-> << IF created.success THEN "meeting_added"
                             ELSE "meeting_error", "menu" >>,
              calls |-> created.calls]
    ELSE [pending |-> DictDel(pending, user_id),
          status |-> "cancelled", failed_at |-> "",
          replies |-> <<"cancelled", "menu">>, calls |-> <<>>]

\* A cancel branch that replies without deleting the record
meeting_callback_cancel_keeping(pending, user_id, action, answer_ok, insert_ok) ==
    IF ~answer_ok
    THEN [pending |-> pending, status |-> "exception", failed_at |-> "answer",
          replies |-> <<>>, calls |-> <<>>]
    ELSE IF action = "meeting_confirm"
    THEN IF user_id \notin DOMAIN pending
         THEN [pending |-> pending, status |-> "not_found", failed_at |-> "",
               replies |-> <<"not_found">>, calls |-> <<>>]
         ELSE LET event_data == pending[user_id]
                  created == create_event_in_calendar(event_data.service,
                                 event_data.title, event_data.start_time,
                                 event_data.end_time, insert_ok)
              IN  [pending |-> DictDel(pending, user_id),
                   status |-> IF created.success THEN "created" ELSE "error",
                   failed_at |-> "",
                   replies |-> << IF created.success THEN "meeting_added"
                                  ELSE "meeting_error", "menu" >>,
                   calls |-> created.calls]
    ELSE [pending |-> pending,
          status |-> "cancelled", failed_at |-> "",
          replies |-> <<"cancelled", "menu">>, calls |-> <<>>]

\* A handle_meeting_callback whose confirm leaves the record in place
meeting_callback_without_delete(pending, user_id, action, answer_ok, insert_ok) ==
    LET done == meeting_callback_cancel_keeping(pending, user_id, action,
                                                answer_ok, insert_ok)
    IN  IF action = "meeting_confirm" THEN [done EXCEPT !.pending = pending]
        ELSE [done EXCEPT !.pending = IF user_id \in DOMAIN pending
                                      THEN DictDel(pending, user_id)
                                      ELSE pending]

\* What handle_meeting_callback does to pending_meetings, replies and calls.
\* answer_ok: query.answer() did not raise; insert_ok: the events().insert of
\* a confirm did not raise.
meeting_callback(pending, user_id, action, answer_ok, insert_ok) ==
    IF ~answer_ok
    THEN [pending |-> pending, status |-> "exception", failed_at |-> "answer",
          replies |-> <<>>, calls |-> <<>>]
    ELSE IF action = "meeting_confirm"
    THEN IF user_id \notin DOMAIN pending
         THEN [pending |-> pending, status |-> "not_found", failed_at |-> "",
               replies |-> <<"not_found">>, calls |-> <<>>]
         ELSE LET event_data == pending[user_id]
                  created == create_event_in_calendar(event_data.service,
                                 event_data.title, event_data.start_time,
                                 event_data.end_time, insert_ok)
              IN  [pending |-> DictDel(pending, user_id),
                   status |-> IF created.success THEN "created" ELSE "error",
                   failed_at |-> "",
                   replies |-> << IF created.success THEN "meeting_added"
                                  ELSE "meeting_error", "menu" >>,
                   calls |-> created.calls]
    ELSE [pending |-> IF user_id \in DOMAIN pending THEN DictDel(pending, user_id)
                      ELSE pending,
          status |-> "cancelled", failed_at |-> "",
          replies |-> <<"cancelled", "menu">>, calls |-> <<>>]

\* handle_meeting_callback(update, context)
handle_meeting_callback(user_id, action, answer_ok, insert_ok) ==
    LET done == meeting_callback(pending_meetings, user_id, action, answer_ok, insert_ok)
    IN  /\ pending_meetings' = done.pending
        /\ out' = [Out("callback", user_id, action, done.status, done.failed_at,
                       done.replies, done.calls, {})
                   EXCEPT !.had_pending = user_id \in DOMAIN pending_meetings]
        /\ UNCHANGED <<user_modes, processed_messages, files, tasks>>

(***************************************************************************)
(* handle_voice                                                            *)
(***************************************************************************)
\* A dedup step that records the key and never clears the set
MarkProcessed_without_clear(processed, key) == processed \cup {key}

\* Lines 590-594: record the key, then drop everything once the set holds
\* more than DedupLimit keys
MarkProcessed(processed, key) ==
    LET added == processed \cup {key}
    IN  IF Cardinality(added) > DedupLimit THEN {} ELSE added

\* What the external calls of one run of the try block answer.
\*   notify_ok   the "creating ..." reply is sent
\*   download    "ok", or the call that raises: "get_file", "download" (no
\*               file written), "download_partial" (a partial file written)
\*   recognize   "ok", or the step of recognize_voice that raises: "decode"
\*               (AudioSegment.from_file), "export" (nothing written),
\*               "export_partial" (the .mp3 exists when export raises),
\*               "transcribe"
\*   text        the transcript
\*   post        the Notion answer: "200", "400" or "raise"
\*   send        "ok", or which of the closing messages fails: "edit", "menu"
Script(notify_ok, download, recognize, text, post, service_ok, ai, now, world, send) ==
    [notify_ok |-> notify_ok, download |-> download, recognize |-> recognize,
     text |-> text, post |-> post, service_ok |-> service_ok, ai |-> ai,
     now |-> now, world |-> world, send |-> send]

\* The result of one run of the try / except / finally of handle_voice:
\* temp are the temporary files it created ("ogg", "mp3"), left those that
\* still exist at the end; store and event_data are the write to
\* pending_meetings; audio is what recognize_voice met ("": not called);
\* outcome is the status create_calendar_event returned ("": not called);
\* overlap and backend describe the calendar the run met.
Run(status, failed_at, replies, calls, temp, left) ==
    [status |-> status, failed_at |-> failed_at, replies |-> replies,
     calls |-> calls, temp |-> temp, left |-> left,
     store |-> FALSE, event_data |-> NoEvent, audio |-> "", outcome |-> "",
     overlap |-> FALSE, backend |-> "ok"]

\* The except branch (reply with the error) followed by the finally branch
\* (remove file_path if it exists)
ExceptFinally(failed_at, replies, calls, temp, left) ==
    Run("exception", failed_at, replies \o <<"exception">>, calls, temp, left \ {"ogg"})

\* The finally branch after a return inside the try block
Finally(run) == [run EXCEPT !.left = @ \ {"ogg"}]

\* A recognize_voice that catches the failure of the transcription call and
\* returns an empty text
recognize_voice_swallowing(recognize, text) ==
    CASE recognize = "decode" ->
            [ok |-> FALSE, text |-> <<>>, calls |-> <<>>, temp |-> {}, left |-> {}]
      [] recognize = "export" ->
            [ok |-> FALSE, text |-> <<>>, calls |-> <<>>, temp |-> {}, left |-> {}]
      [] recognize = "export_partial" ->
            [ok |-> FALSE, text |-> <<>>, calls |-> <<>>,
             temp |-> {"mp3"}, left |-> {"mp3"}]
      [] recognize = "transcribe" ->
            [ok |-> TRUE, text |-> <<>>, calls |-> << SimpleCall("transcriptions") >>,
             temp |-> {"mp3"}, left |-> {}]
      [] OTHER ->
            [ok |-> TRUE, text |-> text, calls |-> << SimpleCall("transcriptions") >>,
             temp |-> {"mp3"}, left |-> {}]

\* recognize_voice(file_path): export writes the .mp3 before the try/finally
\* that removes it starts.
recognize_voice(recognize, text) ==
    CASE recognize = "decode" ->
            [ok |-> FALSE, text |-> <<>>, calls |-> <<>>, temp |-> {}, left |-> {}]
      [] recognize = "export" ->
            [ok |-> FALSE, text |-> <<>>, calls |-> <<>>, temp |-> {}, left |-> {}]
      [] recognize = "export_partial" ->
            [ok |-> FALSE, text |-> <<>>, calls |-> <<>>,
             temp |-> {"mp3"}, left |-> {"mp3"}]
      [] recognize = "transcribe" ->
            [ok |-> FALSE, text |-> <<>>, calls |-> << SimpleCall("transcriptions") >>,
             temp |-> {"mp3"}, left |-> {}]
      [] OTHER ->
            [ok |-> TRUE, text |-> text, calls |-> << SimpleCall("transcriptions") >>,
             temp |-> {"mp3"}, left |-> {}]

\* create_notion_task(text): one POST
create_notion_task(text, post) ==
    [raised |-> post = "raise", success |-> post = "200",
     calls |-> << Call("notion.pages", NoService, text, 0, 0) >>]

\* Which backend failure, if any, the conflict check of this script meets
BackendOf(script) ==
    IF ~script.service_ok THEN "service"
    ELSE IF ~script.world.list_ok THEN "list"
    ELSE IF ~script.world.freebusy_ok THEN "freebusy"
    ELSE "ok"

\* Lines 630-635 of handle_voice: the task branch, `task` being what
\* create_notion_task returned
task_branch(task, creating, heard, files_made, files_kept, send) ==
    IF task.raised
    THEN ExceptFinally("post", creating, heard \o task.calls, files_made, files_kept)
    ELSE IF send = "edit"
    THEN ExceptFinally("edit",
                       creating \o << IF task.success THEN "task_added"
                                      ELSE "task_error" >>,
                       heard \o task.calls, files_made, files_kept)
    ELSE Finally(Run(IF task.success THEN "task_created" ELSE "task_failed", "",
                     creating \o << IF task.success THEN "task_added"
                                    ELSE "task_error" >>,
                     heard \o task.calls, files_made, files_kept))

\* The run `run` with what create_calendar_event returned and met
WithEvent(run, made, backend, world) ==
    [run EXCEPT !.store = made.store,
                !.event_data = made.event_data,
                !.outcome = made.status,
                !.backend = backend,
                !.overlap = /\ made.parsed.ok
                            /\ CalendarBusy(world, made.parsed.start_time,
                                            made.parsed.end_time)]

\* Lines 636-675 of handle_voice: the meeting branch, `made` being what
\* create_calendar_event returned
meeting_replies(made, creating, heard, files_made, files_kept, send) ==
    IF made.status = "raise"
    THEN ExceptFinally("parse", creating, heard \o made.calls, files_made, files_kept)
    ELSE IF send = "edit"
    THEN ExceptFinally("edit",
                       creating \o << CASE made.status = "created" -> "meeting_added"
                                        [] made.status = "conflict" -> "conflict_prompt"
                                        [] OTHER -> "meeting_error" >>,
                       heard \o made.calls, files_made, files_kept)
    ELSE IF made.status = "conflict"
    THEN Finally(Run("conflict", "", creating \o <<"conflict_prompt">>,
                     heard \o made.calls, files_made, files_kept))
    ELSE IF send = "menu"
    THEN ExceptFinally("menu",
                       creating \o << IF made.status = "created" THEN "meeting_added"
                                      ELSE "meeting_error", "menu" >>,
                       heard \o made.calls, files_made, files_kept)
    ELSE Finally(Run(made.status, "",
                     creating \o << IF made.status = "created" THEN "meeting_added"
                                    ELSE "meeting_error", "menu" >>,
                     heard \o made.calls, files_made, files_kept))

meeting_branch(made, creating, heard, files_made, files_kept, script) ==
    WithEvent(meeting_replies(made, creating, heard, files_made, files_kept,
                              script.send),
              made, BackendOf(script), script.world)

\* Lines 626-677 of handle_voice, `rec` being what recognize_voice did
recognized(mode, user_id, script, rec, creating, fetched) ==
    IF ~rec.ok
    THEN ExceptFinally(script.recognize, creating, fetched \o rec.calls,
                       {"ogg"} \cup rec.temp, {"ogg"} \cup rec.left)
    ELSE IF mode = MODE_TASK
    THEN task_branch(create_notion_task(rec.text, script.post), creating,
                     fetched \o rec.calls, {"ogg"} \cup rec.temp,
                     {"ogg"} \cup rec.left, script.send)
    ELSE meeting_branch(create_calendar_event(rec.text, user_id, script.service_ok,
                                              script.ai, script.now, script.world),
                        creating, fetched \o rec.calls, {"ogg"} \cup rec.temp,
                        {"ogg"} \cup rec.left, script)

\* Lines 612-688 of handle_voice for a user in mode `mode`
voice_try(mode, user_id, script) ==
    LET creating == << IF mode = MODE_TASK THEN "creating_task" ELSE "creating_meeting" >>
        fetch == << SimpleCall("get_file") >>
        fetched == << SimpleCall("get_file"), SimpleCall("download_to_drive") >>
    IN  IF ~script.notify_ok
        THEN ExceptFinally("notify", creating, <<>>, {}, {})
        ELSE IF script.download = "get_file"
        THEN ExceptFinally("get_file", creating, fetch, {}, {})
        ELSE IF script.download = "download"
        THEN ExceptFinally("download", creating, fetched, {}, {})
        ELSE IF script.download = "download_partial"
        THEN ExceptFinally("download", creating, fetched, {"ogg"}, {"ogg"})
        ELSE [recognized(mode, user_id, script,
                         recognize_voice(script.recognize, script.text),
                         creating, fetched)
              EXCEPT !.audio = script.recognize]

\* The scripts a run can meet.  Fields a run never reads keep one value.
FailScripts ==
    LET text == CHOOSE t \in Utterances : TRUE
        ai == CHOOSE a \in AIReplies : TRUE
        now == CHOOSE n \in Nows : TRUE
        world == CHOOSE w \in Worlds : TRUE
    IN  { Script(FALSE, "ok", "ok", text, "200", TRUE, ai, now, world, "ok") } \cup
        { Script(TRUE, d, "ok", text, "200", TRUE, ai, now, world, "ok") :
              d \in {"get_file", "download", "download_partial"} } \cup
        { Script(TRUE, "ok", r, text, "200", TRUE, ai, now, world, "ok") :
              r \in {"decode", "export", "export_partial", "transcribe"} }

TaskScripts ==
    LET ai == CHOOSE a \in AIReplies : TRUE
        now == CHOOSE n \in Nows : TRUE
        world == CHOOSE w \in Worlds : TRUE
    IN  { Script(TRUE, "ok", "ok", text, post, TRUE, ai, now, world, send) :
              text \in Utterances, post \in {"200", "400", "raise"},
              send \in {"ok", "edit"} }

MeetingScripts ==
    { Script(TRUE, "ok", "ok", text, "200", service_ok, ai, now, world, send) :
          text \in Utterances, service_ok \in BOOLEAN, ai \in AIReplies,
          now \in Nows, world \in Worlds, send \in {"ok", "edit", "menu"} }

\* Every result a run of the try block can have, per mode and user
VoiceRuns ==
    [mode \in {MODE_TASK, MODE_MEETING}, user_id \in Users |->
        { voice_try(mode, user_id, script) :
              script \in FailScripts \cup
                         (IF mode = MODE_TASK THEN TaskScripts ELSE MeetingScripts) }]

\* uuid.uuid4().hex: a value no file on disk is named after
UniqueId == CHOOSE n \in 1..(MaxLeaked + 1) :
                /\ \A f \in files : f[1] # n
                /\ \A k \in 1..(n - 1) : \E f \in files : f[1] = k

\* f"voice_{unique_id}.ogg" and the .mp3 recognize_voice derives from it
TempFile(unique_id, kind) == <<unique_id, kind>>

\* A handle_voice that treats a missing mode as MODE_TASK
voice_runs_defaulting_to_task(mode, user_id) ==
    VoiceRuns[IF mode = None THEN MODE_TASK ELSE mode, user_id]

\* Lines 596-688: without a mode the message is answered with the request to
\* choose one; otherwise the try block runs
voice_runs(mode, user_id) ==
    IF mode = None
    THEN { Run("no_mode", "", <<"choose_mode">>, <<>>, {}, {}) }
    ELSE VoiceRuns[mode, user_id]

\* handle_voice(update, context)
handle_voice(user_id, message_id) ==
    LET key == message_key(user_id, message_id)
        mode == user_modes[user_id]
    IN  /\ UNCHANGED <<user_modes, tasks>>
        /\ IF key \in processed_messages
           THEN /\ out' = Out("voice", user_id, key, "duplicate", "", <<>>, <<>>, {})
                /\ UNCHANGED <<pending_meetings, processed_messages, files, tasks>>
           ELSE /\ processed_messages' = MarkProcessed(processed_messages, key)
                /\ \E run \in voice_runs(mode, user_id) :
                      /\ run.left = {} \/ Cardinality(files) < MaxLeaked
                      /\ pending_meetings' =
                            IF run.store
                            THEN DictSet(pending_meetings, user_id, run.event_data)
                            ELSE pending_meetings
                      /\ files' = files \cup
                            {TempFile(UniqueId, kind) : kind \in run.left}
                      /\ out' = [Out("voice", user_id, key, run.status,
                                     run.failed_at, run.replies, run.calls,
                                     {TempFile(UniqueId, kind) : kind \in run.temp})
                                 EXCEPT !.mode = mode, !.audio = run.audio,
                                        !.had_pending = user_id \in DOMAIN pending_meetings,
                                        !.outcome = run.outcome,
                                        !.event_data = run.event_data,
                                        !.overlap = run.overlap,
                                        !.backend = run.backend]

(***************************************************************************)
(* The program                                                             *)
(***************************************************************************)
\* Keys of earlier traffic: n messages of another chat
OldKeys(n) == { message_key(7, 1000 + i) : i \in 1..n }

\* The module-level containers start empty.  processed_messages starts with
\* what earlier traffic left in it: nothing, or a set one key short of, or
\* at, the size it can have without being cleared.
Init ==
    /\ user_modes = [u \in Users |-> None]
    /\ pending_meetings = EmptyDict
    /\ processed_messages \in {OldKeys(0), OldKeys(DedupLimit - 1), OldKeys(DedupLimit)}
    /\ files = {}
    /\ tasks = {}
    /\ out = Out("init", 0, "", "", "", <<>>, <<>>, {})

Next ==
    \/ \E u \in Users : start(u)
    \/ \E u \in Users, text \in ModeButtons : handle_mode_selection(u, text)
    \/ \E u \in Users : handle_back(u)
    \/ \E u \in Users, m \in MsgIds : handle_voice(u, m)
    \/ \E u \in Users, action \in CallbackActions, answer_ok \in BOOLEAN,
          insert_ok \in BOOLEAN : handle_meeting_callback(u, action, answer_ok, insert_ok)

Spec == Init /\ [][Next]_vars

(***************************************************************************)
(* The handlers as coroutines: the dispatcher takes the next update while  *)
(* a handler is suspended at an await.  Only handle_voice and              *)
(* handle_meeting_callback touch shared state on both sides of an await;   *)
(* each is cut where its accesses are separated by one.                    *)
(*   handle_voice: lines 585-596 (dedup, read of the mode) run without an  *)
(*   await; the first await is the reply of line 615/618; the only later   *)
(*   write, line 520, sits in a stretch of create_calendar_event without   *)
(*   a suspension (its OpenAI and Google clients are synchronous).         *)
(*   handle_meeting_callback: the await of line 536 comes first; lines     *)
(*   538-567 (lookup, insert, delete) run without an await.                *)
(***************************************************************************)
ConcurrentUsers == {1}
ConcurrentMsgIds == {11}

\* Handlers suspended at the same time
MaxTasks == 2

\* A suspended handler: detail is the message key or the callback data, mode
\* the local variable `mode` of handle_voice, pressed the prompt whose button
\* was pressed
Task(id, handler, user_id, detail, mode, pressed) ==
    [id |-> id, handler |-> handler, user |-> user_id, detail |-> detail,
     mode |-> mode, pressed |-> pressed]

TaskId == CHOOSE n \in 1..MaxTasks : \A t \in tasks : t.id # n

\* The conflict prompts of the user's chat the model follows: those of the
\* voice messages handled last (NoEvent: a prompt it does not follow)
PressedChoices(user_id) ==
    IF out.handler = "voice" /\ out.user = user_id /\ out.on_screen # {}
    THEN out.on_screen
    ELSE {NoEvent}

\* handle_voice up to its first await: lines 580-618.  A duplicate and a
\* message without a mode end here.
handle_voice_begin(user_id, message_id) ==
    IF \/ message_key(user_id, message_id) \in processed_messages
       \/ user_modes[user_id] = None
    THEN handle_voice(user_id, message_id)
    ELSE /\ Cardinality(tasks) < MaxTasks
         /\ processed_messages' =
                MarkProcessed(processed_messages, message_key(user_id, message_id))
         /\ tasks' = tasks \cup {Task(TaskId, "voice", user_id,
                                      message_key(user_id, message_id),
                                      user_modes[user_id], NoEvent)}
         /\ UNCHANGED <<user_modes, pending_meetings, files, out>>

\* A resumed handle_voice that reads user_modes again
resume_mode_rereading(task) == user_modes[task.user]

\* The mode the resumed handle_voice works with: its local variable
resume_mode(task) == task.mode

\* The prompts in the chat after a run of handle_voice
PromptsAfter(run, user_id) ==
    IF run.status = "conflict"
    THEN {run.event_data} \cup
         (IF out.handler = "voice" /\ out.user = user_id THEN out.on_screen ELSE {})
    ELSE {}

\* handle_voice from its first await on: lines 615-688
handle_voice_resume(task) ==
    /\ task.handler = "voice"
    /\ tasks' = tasks \ {task}
    /\ UNCHANGED <<user_modes, processed_messages>>
    /\ \E run \in voice_runs(resume_mode(task), task.user) :
          /\ run.left = {} \/ Cardinality(files) < MaxLeaked
          /\ pending_meetings' =
                IF run.store
                THEN DictSet(pending_meetings, task.user, run.event_data)
                ELSE pending_meetings
          /\ files' = files \cup {TempFile(UniqueId, kind) : kind \in run.left}
          /\ out' = [Out("voice", task.user, task.detail, run.status,
                         run.failed_at, run.replies, run.calls,
                         {TempFile(UniqueId, kind) : kind \in run.temp})
                     EXCEPT !.mode = resume_mode(task), !.audio = run.audio,
                            !.had_pending = task.user \in DOMAIN pending_meetings,
                            !.outcome = run.outcome,
                            !.event_data = run.event_data,
                            !.overlap = run.overlap,
                            !.backend = run.backend,
                            !.on_screen = PromptsAfter(run, task.user)]

\* handle_meeting_callback up to `await query.answer()`: lines 533-536
handle_meeting_callback_begin(user_id, action, pressed) ==
    /\ Cardinality(tasks) < MaxTasks
    /\ tasks' = tasks \cup {Task(TaskId, "callback", user_id, action, None, pressed)}
    /\ UNCHANGED <<user_modes, pending_meetings, processed_messages, files, out>>

\* handle_meeting_callback after `await query.answer()`: lines 536-577
handle_meeting_callback_resume(task, answer_ok, insert_ok) ==
    LET done == meeting_callback(pending_meetings, task.user, task.detail,
                                 answer_ok, insert_ok)
    IN  /\ task.handler = "callback"
        /\ tasks' = tasks \ {task}
        /\ pending_meetings' = done.pending
        /\ out' = [Out("callback", task.user, task.detail, done.status,
                       done.failed_at, done.replies, done.calls, {})
                   EXCEPT !.had_pending = task.user \in DOMAIN pending_meetings,
                          !.pressed = task.pressed]
        /\ UNCHANGED <<user_modes, processed_messages, files>>

ConcurrentInit ==
    /\ user_modes = [u \in Users |-> None]
    /\ pending_meetings = EmptyDict
    /\ processed_messages = {}
    /\ files = {}
    /\ tasks = {}
    /\ out = Out("init", 0, "", "", "", <<>>, <<>>, {})

ConcurrentNext ==
    \/ \E u \in ConcurrentUsers : start(u)
    \/ \E u \in ConcurrentUsers, text \in ModeButtons : handle_mode_selection(u, text)
    \/ \E u \in ConcurrentUsers : handle_back(u)
    \/ \E u \in ConcurrentUsers, m \in ConcurrentMsgIds : handle_voice_begin(u, m)
    \/ \E task \in tasks : handle_voice_resume(task)
    \/ \E u \in ConcurrentUsers, action \in CallbackActions :
          \E pressed \in PressedChoices(u) :
             handle_meeting_callback_begin(u, action, pressed)
    \/ \E task \in tasks, answer_ok \in BOOLEAN, insert_ok \in BOOLEAN :
             handle_meeting_callback_resume(task, answer_ok, insert_ok)

ConcurrentSpec == ConcurrentInit /\ [][ConcurrentNext]_vars

\* The chat as the application dispatches it (line 706: no
\* concurrent_updates, so an update is taken up only when the handler of the
\* one before has returned), with a second voice message of the user
ChatMsgIds == ConcurrentMsgIds \cup {12}

ChatNext ==
    \/ tasks = {} /\ \E u \in ConcurrentUsers : start(u)
    \/ tasks = {} /\ \E u \in ConcurrentUsers, text \in ModeButtons :
                        handle_mode_selection(u, text)
    \/ tasks = {} /\ \E u \in ConcurrentUsers : handle_back(u)
    \/ tasks = {} /\ \E u \in ConcurrentUsers, m \in ChatMsgIds :
                        handle_voice_begin(u, m)
    \/ \E task \in tasks : handle_voice_resume(task)
    \/ tasks = {} /\ \E u \in ConcurrentUsers, action \in CallbackActions :
                        \E pressed \in PressedChoices(u) :
                            handle_meeting_callback_begin(u, action, pressed)
    \/ \E task \in tasks, answer_ok \in BOOLEAN, insert_ok \in BOOLEAN :
           handle_meeting_callback_resume(task, answer_ok, insert_ok)

ChatSpec == ConcurrentInit /\ [][ChatNext]_vars

(***************************************************************************)
(* The two parsers on their own: every call is one step, its arguments and *)
(* its result are left in out.                                             *)
(***************************************************************************)
\* datetime.now(): day 0 at 08:00, 10:00 and 12:00
ParserNows == Nows \cup {480, 600}

\* "zavtra v 15:00 s Antonom", "poslezavtra v 9:30", "sozvon v 9:00",
\* "sozvon v 9", "v 9:00", "Zavtra"
ParserUtterances == Utterances \cup {
    <<"z","a","v","t","r","a"," ","v"," ","1","5",":","0","0"," ","s"," ",
      "A","n","t","o","n","o","m">>,
    <<"p","o","s","l","e","z","a","v","t","r","a"," ","v"," ","9",":","3","0">>,
    <<"s","o","z","v","o","n"," ","v"," ","9",":","0","0">>,
    <<"s","o","z","v","o","n"," ","v"," ","9">>,
    <<"v"," ","9",":","0","0">>,
    <<"Z","a","v","t","r","a">> }

\* A JSON answer with the four keys
AIData(title, date, time, duration) ==
    [k \in {"title", "date", "time", "duration"} |->
        CASE k = "title" -> title
          [] k = "date" -> date
          [] k = "time" -> time
          [] OTHER -> duration]

\* Further answers of the model: an empty title, a duration of 0 minutes, a
\* time strptime rejects
ParserAIReplies == AIReplies \cup {
    [kind |-> "json", data |-> AIData(<<>>, 1, <<9, 0>>, 60)],
    [kind |-> "json", data |-> AIData(TitleAnton, 1, <<9, 0>>, 0)],
    [kind |-> "json", data |-> AIData(TitleAnton, 1, <<25, 0>>, 60)] }

NoAI == [kind |-> "none", data |-> EmptyDict]

ParseOut(handler, text, now, ai, parsed) ==
    [handler |-> handler, text |-> text, now |-> now, ai |-> ai, parsed |-> parsed]

\* One call of parse_meeting_time_simple(text)
call_parse_meeting_time_simple(text, now) ==
    /\ out' = ParseOut("parse_meeting_time_simple", text, now, NoAI,
                       parse_meeting_time_simple(text, now))
    /\ UNCHANGED <<user_modes, pending_meetings, processed_messages, files, tasks>>

\* One call of parse_meeting_with_ai(text)
call_parse_meeting_with_ai(text, now, ai) ==
    /\ out' = ParseOut("parse_meeting_with_ai", text, now, ai,
                       parse_meeting_with_ai(text, now, ai))
    /\ UNCHANGED <<user_modes, pending_meetings, processed_messages, files, tasks>>

ParserInit ==
    /\ user_modes = [u \in Users |-> None]
    /\ pending_meetings = EmptyDict
    /\ processed_messages = {}
    /\ files = {}
    /\ tasks = {}
    /\ out = Out("init", 0, "", "", "", <<>>, <<>>, {})

ParserNext ==
    \/ \E text \in ParserUtterances, now \in ParserNows :
          call_parse_meeting_time_simple(text, now)
    \/ \E text \in ParserUtterances, now \in ParserNows, ai \in ParserAIReplies :
          call_parse_meeting_with_ai(text, now, ai)

ParserSpec == ParserInit /\ [][ParserNext]_vars

(***************************************************************************)
(* Properties                                                              *)
(***************************************************************************)
\* The events().insert calls among `calls`
Inserted(calls) == SelectSeq(calls, LAMBDA c : c.api = "events.insert")

\* The last of the replies, "" if there is none
LastReply(replies) == IF replies = <<>> THEN "" ELSE replies[Len(replies)]

\* The step is handle_voice for a message whose key is not in
\* processed_messages
FreshVoice == out'.handler = "voice" /\ out'.detail \notin processed_messages

\* C1: when the same (user, message) voice update is delivered twice in a
\* row, whatever processed_messages held before, the second delivery is
\* skipped as a duplicate.
C1_SecondDeliverySkipped ==
    [][ (/\ out.handler = "voice"
         /\ out.status # "duplicate"
         /\ out'.handler = "voice"
         /\ out'.user = out.user
         /\ out'.detail = out.detail)
        => out'.status = "duplicate" ]_vars

\* C2: a voice message of a user whose mode is unset is answered with the
\* request to choose a mode and nothing else happens: no download, no
\* transcription, no task or calendar call, no temporary file, no pending
\* meeting stored, and the mode stays unset.
C2_UnsetModeRejected ==
    [][ (FreshVoice /\ user_modes[out'.user] = None)
        => /\ out'.replies = <<"choose_mode">>
           /\ out'.calls = <<>>
           /\ out'.temp_files = {}
           /\ files' = files
           /\ pending_meetings' = pending_meetings
           /\ user_modes'[out'.user] = None ]_vars

C2_Witness ==
    /\ out.handler = "voice"
    /\ out.status = "no_mode"
    /\ out.replies = <<"choose_mode">>
    /\ user_modes[out.user] = None
    /\ out.had_pending
    /\ out.user \in DOMAIN pending_meetings

\* C3: whenever the calendar holds an event overlapping the proposed slot,
\* create_calendar_event returns conflict, makes no events().insert call and
\* stores a pending meeting for the user.
C3_OverlapGivesConflict ==
    (out.handler = "voice" /\ out.overlap)
    => /\ out.outcome = "conflict"
       /\ Inserted(out.calls) = <<>>
       /\ out.user \in DOMAIN pending_meetings

\* C4 as stated: any new voice message handled for a user who has a pending
\* meeting replaces that record.
C4_AnyVoiceReplacesPending ==
    [][ (FreshVoice /\ out'.user \in DOMAIN pending_meetings)
        => /\ out'.user \in DOMAIN pending_meetings'
           /\ pending_meetings'[out'.user] # pending_meetings[out'.user] ]_vars

\* C4: pending_meetings holds at most one record per user, and a voice
\* message replaces the user's record exactly when create_calendar_event
\* returns conflict for it: the record is then the event_data of that
\* message; on every other outcome pending_meetings stays as it was.
C4_ConflictReplacesPending ==
    [][ out'.handler = "voice"
        => IF out'.outcome = "conflict"
           THEN /\ out'.event_data # NoEvent
                /\ pending_meetings' =
                       DictSet(pending_meetings, out'.user, out'.event_data)
           ELSE pending_meetings' = pending_meetings ]_vars

C4_Witness ==
    /\ out.handler = "voice"
    /\ out.had_pending
    /\ out.outcome = "conflict"
    /\ pending_meetings[out.user] = out.event_data
    /\ out.event_data.title = TitleAnton

\* C5: a confirm for a user with a pending meeting makes exactly one
\* events().insert call, with the service, title, start and end of the stored
\* record, and afterwards the user has no pending meeting, whether the insert
\* succeeded or not.
C5_ConfirmCreatesStored ==
    [][ (/\ out'.handler = "callback"
         /\ out'.detail = "meeting_confirm"
         /\ out'.failed_at # "answer"
         /\ out'.user \in DOMAIN pending_meetings)
        => /\ out'.calls =
                  << Call("events.insert",
                          pending_meetings[out'.user].service,
                          pending_meetings[out'.user].title,
                          pending_meetings[out'.user].start_time,
                          pending_meetings[out'.user].end_time) >>
           /\ out'.user \notin DOMAIN pending_meetings' ]_vars

C5_Witness ==
    /\ out.handler = "callback"
    /\ out.detail = "meeting_confirm"
    /\ out.had_pending
    /\ out.status = "error"
    /\ Len(Inserted(out.calls)) = 1
    /\ out.user \notin DOMAIN pending_meetings

\* C6 as stated: a confirm or a cancel for a user without a pending meeting
\* creates nothing, changes no state and replies with the not-found message.
C6_NoPendingNotFound ==
    [][ (/\ out'.handler = "callback"
         /\ out'.failed_at # "answer"
         /\ out'.user \notin DOMAIN pending_meetings)
        => /\ out'.replies = <<"not_found">>
           /\ out'.calls = <<>>
           /\ UNCHANGED <<user_modes, pending_meetings, processed_messages, files>> ]_vars

\* C6: a confirm or a cancel for a user without a pending meeting creates
\* nothing and changes no state; the confirm replies with the not-found
\* message, the cancel with the cancelled message followed by the menu.
C6_NoPendingNoEffect ==
    [][ (/\ out'.handler = "callback"
         /\ out'.failed_at # "answer"
         /\ out'.user \notin DOMAIN pending_meetings)
        => /\ out'.calls = <<>>
           /\ UNCHANGED <<user_modes, pending_meetings, processed_messages, files>>
           /\ out'.replies = IF out'.detail = "meeting_confirm"
                             THEN <<"not_found">>
                             ELSE <<"cancelled", "menu">> ]_vars

C6_Witness ==
    /\ out.handler = "callback"
    /\ out.detail = "meeting_cancel"
    /\ ~out.had_pending
    /\ out.replies = <<"cancelled", "menu">>

\* C7: when the calendar service cannot be built or the busy query fails,
\* create_calendar_event returns error, makes no events().insert call and
\* leaves pending_meetings as it was.
C7_BackendFailureIsError ==
    [][ (/\ out'.handler = "voice"
         /\ out'.backend # "ok"
         /\ out'.outcome \notin {"", "raise"})
        => /\ out'.outcome = "error"
           /\ Inserted(out'.calls) = <<>>
           /\ pending_meetings' = pending_meetings ]_vars

\* C8 as stated: when the transcription fails, the failure is reported and
\* user_modes, pending_meetings and processed_messages are all as before.
C8_TranscriptionFailureMutatesNothing ==
    [][ (FreshVoice /\ out'.audio = "transcribe")
        => /\ LastReply(out'.replies) = "exception"
           /\ user_modes' = user_modes
           /\ pending_meetings' = pending_meetings
           /\ processed_messages' = processed_messages ]_vars

\* C8: when the transcription fails, the failure is reported, user_modes and
\* pending_meetings are as before and no temporary file is left; the key of
\* the message has been recorded in processed_messages, or the set has been
\* emptied where recording it took it past DedupLimit keys.
C8_TranscriptionFailureKeepsSession ==
    [][ (FreshVoice /\ out'.audio = "transcribe")
        => /\ LastReply(out'.replies) = "exception"
           /\ Inserted(out'.calls) = <<>>
           /\ user_modes' = user_modes
           /\ pending_meetings' = pending_meetings
           /\ files' = files
           /\ processed_messages' =
                  IF Cardinality(processed_messages \cup {out'.detail}) > DedupLimit
                  THEN {}
                  ELSE processed_messages \cup {out'.detail} ]_vars

C8_Witness ==
    /\ out.handler = "voice"
    /\ out.audio = "transcribe"
    /\ out.failed_at = "transcribe"
    /\ out.had_pending
    /\ out.detail \in processed_messages

\* C9: handling an update of one user leaves the mode and the pending meeting
\* of every other user as they were.
C9_UserIsolation ==
    [][ \A v \in Users :
            v # out'.user
            => /\ user_modes'[v] = user_modes[v]
               /\ (v \in DOMAIN pending_meetings') = (v \in DOMAIN pending_meetings)
               /\ v \in DOMAIN pending_meetings
                      => pending_meetings'[v] = pending_meetings[v] ]_vars

C9_Witness ==
    /\ out.handler = "voice"
    /\ out.status = "exception"
    /\ \E v \in Users \ {out.user} :
          /\ user_modes[v] = MODE_MEETING
          /\ v \in DOMAIN pending_meetings

\* C10: when handle_voice has finished, none of the temporary files it
\* created exists, whatever the outcome.
C10_TempFilesRemoved ==
    out.handler = "voice" => out.temp_files \cap files = {}

Zavtra == <<"z","a","v","t","r","a">>
Poslezavtra == <<"p","o","s","l","e","z","a","v","t","r","a">>
Segodnq == <<"s","e","g","o","d","n","q">>

\* out holds the result of a call of the regex parser that returned
SimpleParsed == out.handler = "parse_meeting_time_simple" /\ out.parsed.ok

\* out holds the result of a call of either parser that returned
AnyParsed ==
    /\ out.handler \in {"parse_meeting_time_simple", "parse_meeting_with_ai"}
    /\ out.parsed.ok

\* C12: for every utterance containing "zavtra" the regex parser resolves
\* the start to the day after the reference date.
C12_TomorrowIsNextDay ==
    (SimpleParsed /\ Contains(Lower(out.text), Zavtra))
    => DayOf(out.parsed.start_time) = DayOf(out.now) + 1

C12_Witness ==
    /\ SimpleParsed
    /\ Contains(out.text, Zavtra)
    /\ ~Contains(out.text, Poslezavtra)
    /\ out.parsed.start_time = (DayOf(out.now) + 1) * MinutesPerDay + 15 * MinutesPerHour
    /\ out.parsed.title # DefaultTitle

\* C13: for every utterance without a date keyword whose resolved time of
\* day has already passed at the reference time, the regex parser resolves
\* the start to the day after the reference date, so the start is not in
\* the past.
C13_ElapsedTimeRollsForward ==
    (/\ SimpleParsed
     /\ ~Contains(Lower(out.text), Zavtra)
     /\ ~Contains(Lower(out.text), Segodnq)
     /\ out.parsed.start_time % MinutesPerDay < out.now % MinutesPerDay)
    => /\ DayOf(out.parsed.start_time) = DayOf(out.now) + 1
       /\ out.parsed.start_time >= out.now

\* C14: the title either parser returns is never empty.
C14_TitleNonEmpty == AnyParsed => out.parsed.title # <<>>

\* C15: when the chat-completions call fails or its answer cannot be decoded,
\* parse_meeting_with_ai returns, and returns the triple the regex parser
\* gives for the same utterance.
C15_FallbackReturnsRegexTriple ==
    (/\ out.handler = "parse_meeting_with_ai"
     /\ out.ai.kind \in {"service_error", "bad_json"})
    => /\ out.parsed.ok
       /\ out.parsed = parse_meeting_time_simple(out.text, out.now)

\* C16: a user's mode changes only in a mode selection or a back step; start,
\* voice messages, confirm and cancel leave every mode as it was.
C16_ModeChangesOnlyBySelection ==
    [][ out'.handler \notin {"mode", "back"} => user_modes' = user_modes ]_vars

\* C17: a user gets a pending meeting only from an own voice message for
\* which create_calendar_event returned conflict, loses it only in an own
\* confirm or cancel, and start, mode selection, back and voice messages with
\* any other outcome leave pending_meetings as it was.
C17_PendingLifecycle ==
    [][ /\ \A u \in Users :
              /\ (u \notin DOMAIN pending_meetings /\ u \in DOMAIN pending_meetings')
                    => /\ out'.handler = "voice"
                       /\ out'.user = u
                       /\ out'.outcome = "conflict"
              /\ (u \in DOMAIN pending_meetings /\ u \notin DOMAIN pending_meetings')
                    => /\ out'.handler = "callback"
                       /\ out'.user = u
        /\ (\/ out'.handler \in {"start", "mode", "back"}
            \/ out'.handler = "voice" /\ out'.outcome # "conflict")
              => pending_meetings' = pending_meetings ]_vars

C17_Witness ==
    /\ out.handler = "voice"
    /\ out.mode = MODE_TASK
    /\ out.status = "task_created"
    /\ out.had_pending
    /\ out.user \in DOMAIN pending_meetings

\* C18: a cancel of a user with a pending meeting deletes the record and
\* makes no events().insert call, and a confirm of the same user that follows
\* it makes no call either and changes nothing.
C18_CancelDeletes ==
    [][ /\ (/\ out'.handler = "callback"
            /\ out'.detail = "meeting_cancel"
            /\ out'.failed_at # "answer"
            /\ out'.user \in DOMAIN pending_meetings)
           => /\ out'.user \notin DOMAIN pending_meetings'
              /\ out'.calls = <<>>
        /\ (/\ out.handler = "callback"
            /\ out.detail = "meeting_cancel"
            /\ out.failed_at # "answer"
            /\ out'.handler = "callback"
            /\ out'.detail = "meeting_confirm"
            /\ out'.user = out.user)
           => /\ out'.calls = <<>>
              /\ pending_meetings' = pending_meetings ]_vars

C18_Witness ==
    /\ out.handler = "callback"
    /\ out.detail = "meeting_cancel"
    /\ out.had_pending
    /\ out.status = "cancelled"
    /\ out.user \notin DOMAIN pending_meetings

\* C19: for every utterance containing "poslezavtra" the regex parser
\* resolves the start to two days after the reference date.
C19_DayAfterTomorrowIsTwoDays ==
    (SimpleParsed /\ Contains(Lower(out.text), Poslezavtra))
    => DayOf(out.parsed.start_time) = DayOf(out.now) + 2

\* The duration behind the triple in out: the one the model gave when its
\* answer was used, 60 minutes otherwise
DurationOf(o) ==
    IF /\ o.handler = "parse_meeting_with_ai"
       /\ o.ai.kind = "json"
       /\ "duration" \in DOMAIN o.ai.data
       /\ o.parsed # parse_meeting_time_simple(o.text, o.now)
    THEN o.ai.data["duration"]
    ELSE DefaultDuration

\* C20: the triple either parser returns has end = start + duration and its
\* end is strictly after its start.
C20_EndAfterStart ==
    AnyParsed
    => /\ out.parsed.end_time = out.parsed.start_time + DurationOf(out)
       /\ out.parsed.end_time > out.parsed.start_time

\* C23: whether a delivery of a voice message of user v is skipped depends
\* only on v's own messages: a handler run for another user never changes
\* whether a key of v is in processed_messages.
C23_OtherUsersKeepDecision ==
    [][ \A v \in Users, m \in MsgIds :
            v # out'.user
            => (message_key(v, m) \in processed_messages')
                   = (message_key(v, m) \in processed_messages) ]_vars

\* The task a step resumes, if the step resumes one
Resumed(handler) == { t \in tasks \ tasks' : t.handler = handler }

\* The calls of a handler run that reach the calendar
CalendarCalls(calls) ==
    SelectSeq(calls, LAMBDA c : c.api \in {"check_calendar_busy", "events.insert"})
NotionCalls(calls) == SelectSeq(calls, LAMBDA c : c.api = "notion.pages")

\* C21: when the user presses confirm on a conflict prompt, the event that
\* is created has the title, start and end shown in that prompt, also when
\* later voice messages brought further prompts before the press.
C21_ConfirmMatchesPrompt ==
    [][ \A t \in Resumed("callback") :
            (/\ t.detail = "meeting_confirm"
             /\ t.pressed # NoEvent
             /\ out'.status = "created")
            => \A i \in DOMAIN Inserted(out'.calls) :
                   /\ Inserted(out'.calls)[i].title = t.pressed.title
                   /\ Inserted(out'.calls)[i].start_time = t.pressed.start_time
                   /\ Inserted(out'.calls)[i].end_time = t.pressed.end_time ]_vars

\* C22: under every interleaving of the confirm and cancel callbacks of a
\* user, a callback that calls events().insert does so once, for the record
\* stored for that user, and removes that record in the same step, so no
\* stored record is ever inserted twice.
C22_RecordInsertedOnce ==
    [][ \A t \in Resumed("callback") :
            Inserted(out'.calls) # <<>>
            => /\ t.detail = "meeting_confirm"
               /\ t.user \in DOMAIN pending_meetings
               /\ Inserted(out'.calls) =
                      << Call("events.insert",
                              pending_meetings[t.user].service,
                              pending_meetings[t.user].title,
                              pending_meetings[t.user].start_time,
                              pending_meetings[t.user].end_time) >>
               /\ t.user \notin DOMAIN pending_meetings' ]_vars

\* A confirm has inserted the record while a second confirm of the same user
\* is still suspended
C22_Witness ==
    /\ out.handler = "callback"
    /\ out.detail = "meeting_confirm"
    /\ out.had_pending
    /\ Len(Inserted(out.calls)) = 1
    /\ out.user \notin DOMAIN pending_meetings
    /\ \E t \in tasks : /\ t.handler = "callback"
                        /\ t.user = out.user
                        /\ t.detail = "meeting_confirm"

\* C24: a voice message is handled in the mode the user had when its handler
\* started, also when the mode changed while the handler was suspended; in
\* task mode it calls create_task at most once, makes no calendar call and
\* leaves pending_meetings alone, in meeting mode it never calls create_task.
C24_ModeOfHandlerStart ==
    [][ \A t \in Resumed("voice") :
            /\ out'.mode = t.mode
            /\ t.mode = MODE_TASK
               => /\ Len(NotionCalls(out'.calls)) <= 1
                  /\ CalendarCalls(out'.calls) = <<>>
                  /\ pending_meetings' = pending_meetings
            /\ t.mode = MODE_MEETING
               => NotionCalls(out'.calls) = <<>> ]_vars

\* A message was handled in meeting mode and created an event although the
\* user has switched to task mode in the meantime
C24_Witness ==
    /\ out.handler = "voice"
    /\ out.mode = MODE_MEETING
    /\ user_modes[out.user] = MODE_TASK
    /\ Len(Inserted(out.calls)) = 1
    /\ NotionCalls(out.calls) = <<>>

====
